---- MODULE Spec2Model ----
(***************************************************************************)
(* A model of the File Tree abstract object of src/3FT: the three static   *)
(* variables of ft.c, the directory nodes of noded.c and the file nodes of *)
(* nodef.c, with one action per public FT operation.                       *)
(*                                                                         *)
(* Nodes live in a heap of numbered cells: a NodeD_T is an index into      *)
(* dirs, a NodeF_T an index into files, and NULL is 0.  A path is the      *)
(* sequence of its components; a component is a small number standing for  *)
(* its name.  A DynArray is a sequence; the C code's indices are 0-based   *)
(* and are kept 0-based here (element i of the C array is arr[i+1]).       *)
(*                                                                         *)
(* Every operation is an operator X_result from the state it is called in  *)
(* and its arguments to what it returns and the state it leaves; the       *)
(* action X applies X_result to the current state.  A state is the record  *)
(* of the variables below.                                                 *)
(***************************************************************************)
EXTENDS Integers, Sequences, FiniteSets, TLC

VARIABLES
    bIsInitialized,  \* ft.c: flag, TRUE between FT_init and FT_destroy
    oNRoot,          \* ft.c: the root directory node, or NULL
    ulDirCount,      \* ft.c: the counter
    dirs,            \* heap of struct nodeD: cell -> record
    files,           \* heap of struct nodeF: cell -> record
    freed,           \* cells of dirs whose memory free() has released while
                     \* a pointer to them is still stored
    bAborted,        \* TRUE once the process was ended by a failed assert()
                     \* or by a crash on an access to released memory
    dtNodes          \* heap of the nodes handed to CheckerDT: cell -> record

vars == <<bIsInitialized, oNRoot, ulDirCount, dirs, files, freed, bAborted,
          dtNodes>>

\* the current state of the abstract object
S == [bIsInitialized |-> bIsInitialized, oNRoot |-> oNRoot,
      ulDirCount |-> ulDirCount, dirs |-> dirs, files |-> files,
      freed |-> freed]

(***************************************************************************)
(* Bounds of the model.                                                    *)
(***************************************************************************)
NumNames == 2     \* distinct component names
MaxDepth == 3     \* deepest path a client passes
MaxDirs == 3      \* directory nodes the heap can hold; malloc fails beyond
MaxFiles == 2     \* file nodes the heap can hold; malloc fails beyond
MaxHandle == 1    \* content handles are 0 (NULL) .. MaxHandle
MaxLen == 1       \* content lengths are 0 .. MaxLen
MaxCount == 4     \* no insertion is issued that takes the counter beyond
MaxNodes == 3     \* nodes of a structure handed to CheckerDT

NULL == 0

SUCCESS == "SUCCESS"
INITIALIZATION_ERROR == "INITIALIZATION_ERROR"
BAD_PATH == "BAD_PATH"
CONFLICTING_PATH == "CONFLICTING_PATH"
NOT_A_DIRECTORY == "NOT_A_DIRECTORY"
NOT_A_FILE == "NOT_A_FILE"
ALREADY_IN_TREE == "ALREADY_IN_TREE"
NO_SUCH_PATH == "NO_SUCH_PATH"
MEMORY_ERROR == "MEMORY_ERROR"

Names == 1..NumNames
Paths == UNION {[1..k -> Names] : k \in 1..MaxDepth}
\* the strings a client passes: the well-formed paths and the empty string
PathStrings == Paths \cup {<< >>}
Handles == 0..MaxHandle
Lengths == 0..MaxLen
\* what a client passes as contents: no buffer, of length 0, or a buffer
\* with its length
Buffers == {<<NULL, 0>>} \cup ((1..MaxHandle) \X (1..MaxLen))

(***************************************************************************)
(* The Path module (an external collaborator, spec section 3).             *)
(***************************************************************************)
\* Path_new: the status of parsing pcPath
Path_new(pcPath) == IF pcPath = << >> THEN BAD_PATH ELSE SUCCESS

Path_getDepth(oPPath) == Len(oPPath)

\* Path_prefix: fails when the depth asked for is 0 or exceeds the path's
Path_prefix(oPPath, ulDepth) ==
    IF ulDepth = 0 \/ ulDepth > Len(oPPath)
    THEN [iStatus |-> NO_SUCH_PATH, oPResult |-> << >>]
    ELSE [iStatus |-> SUCCESS, oPResult |-> SubSeq(oPPath, 1, ulDepth)]

RECURSIVE Path_comparePath(_, _)
\* <0, 0, >0 as oPPath1 is less than, equal to, greater than oPPath2
Path_comparePath(oPPath1, oPPath2) ==
    IF oPPath1 = << >> /\ oPPath2 = << >> THEN 0
    ELSE IF oPPath1 = << >> THEN -1
    ELSE IF oPPath2 = << >> THEN 1
    ELSE IF Head(oPPath1) < Head(oPPath2) THEN -1
    ELSE IF Head(oPPath1) > Head(oPPath2) THEN 1
    ELSE Path_comparePath(Tail(oPPath1), Tail(oPPath2))

RECURSIVE Path_getSharedPrefixDepth(_, _)
Path_getSharedPrefixDepth(oPPath1, oPPath2) ==
    IF oPPath1 = << >> \/ oPPath2 = << >> THEN 0
    ELSE IF Head(oPPath1) # Head(oPPath2) THEN 0
    ELSE 1 + Path_getSharedPrefixDepth(Tail(oPPath1), Tail(oPPath2))

(***************************************************************************)
(* The DynArray module (an external collaborator, spec section 4.2).       *)
(***************************************************************************)
RECURSIVE DynArray_bsearchRange(_, _, _, _)
\* binary search of keys[lo..hi] (0-based, inclusive) for sought
DynArray_bsearchRange(keys, sought, lo, hi) ==
    IF lo > hi THEN [bFound |-> FALSE, ulIndex |-> lo]
    ELSE LET mid == (lo + hi) \div 2
             iCmp == Path_comparePath(keys[mid + 1], sought)
         IN  IF iCmp = 0 THEN [bFound |-> TRUE, ulIndex |-> mid]
             ELSE IF iCmp > 0
                  THEN DynArray_bsearchRange(keys, sought, lo, mid - 1)
                  ELSE DynArray_bsearchRange(keys, sought, mid + 1, hi)

\* found flag and index; when not found, the index where sought would go
DynArray_bsearch(keys, sought) ==
    DynArray_bsearchRange(keys, sought, 0, Len(keys) - 1)

DynArray_addAt(arr, ulIndex, elem) ==
    SubSeq(arr, 1, ulIndex) \o <<elem>> \o SubSeq(arr, ulIndex + 1, Len(arr))

DynArray_removeAt(arr, ulIndex) ==
    SubSeq(arr, 1, ulIndex) \o SubSeq(arr, ulIndex + 2, Len(arr))

(***************************************************************************)
(* malloc.  Which free cell malloc returns is its own business; the model  *)
(* takes the cell numbered after the path the node is made for when that   *)
(* cell is free, and the lowest free cell otherwise.                       *)
(***************************************************************************)
RECURSIVE PathCell(_)
PathCell(oPPath) ==
    IF oPPath = << >> THEN 0
    ELSE PathCell(SubSeq(oPPath, 1, Len(oPPath) - 1)) * (NumNames + 1)
         + oPPath[Len(oPPath)]

Cells == 1..((NumNames + 1) ^ (MaxDepth + 1))

Malloc(used, ulLive, ulMax, oPPath) ==
    IF ulLive >= ulMax THEN NULL
    ELSE IF PathCell(oPPath) \notin used THEN PathCell(oPPath)
    ELSE CHOOSE i \in Cells \ used : \A j \in Cells \ used : i <= j

MallocD(s, oPPath) ==
    Malloc(DOMAIN s.dirs, Cardinality(DOMAIN s.dirs \ s.freed), MaxDirs,
           oPPath)

MallocF(s, oPPath) ==
    Malloc(DOMAIN s.files, Cardinality(DOMAIN s.files), MaxFiles, oPPath)

(***************************************************************************)
(* noded.c and nodef.c.                                                    *)
(***************************************************************************)
DirChildPaths(s, oNdNode) ==
    [i \in 1..Len(s.dirs[oNdNode].oDDirChildren) |->
        s.dirs[s.dirs[oNdNode].oDDirChildren[i]].oPPath]

FileChildPaths(s, oNdNode) ==
    [i \in 1..Len(s.dirs[oNdNode].oDFileChildren) |->
        s.files[s.dirs[oNdNode].oDFileChildren[i]].oPPath]

\* a NodeD_hasDirChild that finds no child
NodeD_hasDirChild_never(s, oNdParent, oPPath) ==
    [bFound |-> FALSE, ulIndex |-> 0]

NodeD_hasDirChild(s, oNdParent, oPPath) ==
    DynArray_bsearch(DirChildPaths(s, oNdParent), oPPath)

NodeD_hasFileChild(s, oNdParent, oPPath) ==
    DynArray_bsearch(FileChildPaths(s, oNdParent), oPPath)

\* a NodeD_new_ulIndex that links every new node in at the front
NodeD_new_ulIndex_front(s, oNdParent, oPPath) == 0

\* the index at which NodeD_new links the new node into its parent's array
NodeD_new_ulIndex(s, oNdParent, oPPath) ==
    NodeD_hasDirChild(s, oNdParent, oPPath).ulIndex

\* a NodeD_newCell that leaves the parent reference unset
NodeD_newCell_noParent(oPPath, oNdParent) ==
    [oPPath |-> oPPath, oNdParent |-> NULL,
     oDFileChildren |-> << >>, oDDirChildren |-> << >>]

\* the struct nodeD that NodeD_new fills in
NodeD_newCell(oPPath, oNdParent) ==
    [oPPath |-> oPPath, oNdParent |-> oNdParent,
     oDFileChildren |-> << >>, oDDirChildren |-> << >>]

\* NodeD_new; bFail says that one of its allocations fails
NodeD_new(s, oPPath, oNdParent, bFail) ==
    LET psdNew == MallocD(s, oPPath)
        fail(iStatus) == [iStatus |-> iStatus, s |-> s, oNdResult |-> NULL]
        newCell == NodeD_newCell(oPPath, oNdParent)
    IN  IF bFail \/ psdNew = NULL THEN fail(MEMORY_ERROR)
        ELSE IF oNdParent # NULL THEN
            LET ulParentDepth == Path_getDepth(s.dirs[oNdParent].oPPath)
                ulSharedDepth == Path_getSharedPrefixDepth(oPPath,
                                     s.dirs[oNdParent].oPPath)
            IN  IF ulSharedDepth < ulParentDepth THEN fail(CONFLICTING_PATH)
                ELSE IF Path_getDepth(oPPath) # ulParentDepth + 1
                     THEN fail(NO_SUCH_PATH)
                ELSE IF NodeD_hasDirChild(s, oNdParent, oPPath).bFound
                     THEN fail(ALREADY_IN_TREE)
                ELSE [iStatus |-> SUCCESS,
                      s |-> [s EXCEPT !.dirs =
                                [i \in DOMAIN s.dirs \cup {psdNew} |->
                                    IF i = psdNew THEN newCell
                                    ELSE IF i = oNdParent
                                    THEN [s.dirs[i] EXCEPT !.oDDirChildren =
                                            DynArray_addAt(@,
                                                NodeD_new_ulIndex(s,
                                                    oNdParent, oPPath),
                                                psdNew)]
                                    ELSE s.dirs[i]]],
                      oNdResult |-> psdNew]
        ELSE IF Path_getDepth(oPPath) # 1 THEN fail(NO_SUCH_PATH)
        ELSE [iStatus |-> SUCCESS,
              s |-> [s EXCEPT !.dirs =
                        [i \in DOMAIN s.dirs \cup {psdNew} |->
                            IF i = psdNew THEN newCell ELSE s.dirs[i]]],
              oNdResult |-> psdNew]

\* NodeF_new; bFail says that one of its allocations fails
NodeF_new(s, oPPath, bFail) ==
    LET oNfNew == MallocF(s, oPPath)
        fail(iStatus) == [iStatus |-> iStatus, s |-> s, oNfResult |-> NULL]
    IN  IF ~(Path_getDepth(oPPath) > 1) THEN fail(NO_SUCH_PATH)
        ELSE IF bFail \/ oNfNew = NULL THEN fail(MEMORY_ERROR)
        ELSE [iStatus |-> SUCCESS,
              s |-> [s EXCEPT !.files =
                        [i \in DOMAIN s.files \cup {oNfNew} |->
                            IF i = oNfNew
                            THEN [oPPath |-> oPPath, ulLength |-> 0,
                                  pvContents |-> NULL]
                            ELSE s.files[i]]],
              oNfResult |-> oNfNew]

\* a NodeF_free that frees nothing
NodeF_free_leak(s, oNfNode) == s

NodeF_free(s, oNfNode) ==
    [s EXCEPT !.files = [i \in DOMAIN s.files \ {oNfNode} |-> s.files[i]]]

NodeD_addFileChild(s, oNdParent, oNfChild, ulIndex) ==
    [s EXCEPT !.dirs[oNdParent].oDFileChildren =
        DynArray_addAt(@, ulIndex, oNfChild)]

RECURSIVE NodeD_removeFileChildren(_, _)
\* frees the file children of oNdNode, first one first
NodeD_removeFileChildren(s, oNdNode) ==
    IF Len(s.dirs[oNdNode].oDFileChildren) = 0 THEN s
    ELSE NodeD_removeFileChildren(
            [NodeF_free(s, s.dirs[oNdNode].oDFileChildren[1])
                EXCEPT !.dirs[oNdNode].oDFileChildren =
                    DynArray_removeAt(@, 0)],
            oNdNode)

RECURSIVE NodeD_free(_, _)
RECURSIVE NodeD_freeDirChildren(_, _, _)
\* the loop of NodeD_free over the directory children of oNdNode
NodeD_freeDirChildren(s, oNdNode, ulCount) ==
    IF Len(s.dirs[oNdNode].oDDirChildren) = 0
    THEN [s |-> s, ulCount |-> ulCount]
    ELSE LET r == NodeD_free(s, s.dirs[oNdNode].oDDirChildren[1])
         IN  NodeD_freeDirChildren(r.s, oNdNode, ulCount + r.ulCount)

\* NodeD_free: the state without the subtree of oNdNode, and the number of
\* directories released
NodeD_free(s, oNdNode) ==
    LET oNdParent == s.dirs[oNdNode].oNdParent
        rFind == DynArray_bsearch(DirChildPaths(s, oNdParent),
                                  s.dirs[oNdNode].oPPath)
        s1 == IF oNdParent # NULL /\ rFind.bFound
              THEN [s EXCEPT !.dirs[oNdParent].oDDirChildren =
                        DynArray_removeAt(@, rFind.ulIndex)]
              ELSE s
        r2 == NodeD_freeDirChildren(s1, oNdNode, 0)
        s3 == NodeD_removeFileChildren(r2.s, oNdNode)
    IN  [s |-> [s3 EXCEPT !.dirs =
                    [i \in DOMAIN s3.dirs \ {oNdNode} |-> s3.dirs[i]]],
         ulCount |-> r2.ulCount + 1]

(***************************************************************************)
(* ft.c: the lookups.                                                      *)
(***************************************************************************)
RECURSIVE FT_traversePath_loop(_, _, _, _)
\* the for loop of FT_traversePath, from depth i on
FT_traversePath_loop(s, oPPath, oNCurr, i) ==
    IF i > Path_getDepth(oPPath) THEN oNCurr
    ELSE LET r == NodeD_hasDirChild(s, oNCurr,
                                    Path_prefix(oPPath, i).oPResult)
         IN  IF r.bFound
             THEN FT_traversePath_loop(s, oPPath,
                      s.dirs[oNCurr].oDDirChildren[r.ulIndex + 1], i + 1)
             ELSE oNCurr

\* a FT_traversePath that does not compare the root with the path
FT_traversePath_noConflict(s, oPPath) ==
    IF s.oNRoot = NULL THEN [iStatus |-> SUCCESS, oNFurthest |-> NULL]
    ELSE [iStatus |-> SUCCESS,
          oNFurthest |-> FT_traversePath_loop(s, oPPath, s.oNRoot, 2)]

FT_traversePath(s, oPPath) ==
    IF s.oNRoot = NULL THEN [iStatus |-> SUCCESS, oNFurthest |-> NULL]
    ELSE IF Path_comparePath(s.dirs[s.oNRoot].oPPath,
                             Path_prefix(oPPath, 1).oPResult) # 0
    THEN [iStatus |-> CONFLICTING_PATH, oNFurthest |-> NULL]
    ELSE [iStatus |-> SUCCESS,
          oNFurthest |-> FT_traversePath_loop(s, oPPath, s.oNRoot, 2)]

\* a FT_findDir that does not test bIsInitialized
FT_findDir_noInit(s, pcPath) ==
    LET fail(iStatus) == [iStatus |-> iStatus, oNResult |-> NULL]
        rT == FT_traversePath(s, pcPath)
    IN  IF Path_new(pcPath) # SUCCESS THEN fail(Path_new(pcPath))
        ELSE IF rT.iStatus # SUCCESS THEN fail(rT.iStatus)
        ELSE IF rT.oNFurthest = NULL THEN fail(NO_SUCH_PATH)
        ELSE IF Path_comparePath(s.dirs[rT.oNFurthest].oPPath, pcPath) # 0
             THEN fail(NOT_A_DIRECTORY)
        ELSE [iStatus |-> SUCCESS, oNResult |-> rT.oNFurthest]

FT_findDir(s, pcPath) ==
    LET fail(iStatus) == [iStatus |-> iStatus, oNResult |-> NULL]
        rT == FT_traversePath(s, pcPath)
    IN  IF ~s.bIsInitialized THEN fail(INITIALIZATION_ERROR)
        ELSE IF Path_new(pcPath) # SUCCESS THEN fail(Path_new(pcPath))
        ELSE IF rT.iStatus # SUCCESS THEN fail(rT.iStatus)
        ELSE IF rT.oNFurthest = NULL THEN fail(NO_SUCH_PATH)
        ELSE IF Path_comparePath(s.dirs[rT.oNFurthest].oPPath, pcPath) # 0
             THEN fail(NOT_A_DIRECTORY)
        ELSE [iStatus |-> SUCCESS, oNResult |-> rT.oNFurthest]

FT_findFile(s, pcPath) ==
    LET fail(iStatus) == [iStatus |-> iStatus, oNResult |-> NULL]
        rT == FT_traversePath(s, pcPath)
        oNParent == rT.oNFurthest
        rP == Path_prefix(pcPath, Path_getDepth(pcPath) - 1)
        rHas == NodeD_hasFileChild(s, oNParent, pcPath)
    IN  IF ~s.bIsInitialized THEN fail(INITIALIZATION_ERROR)
        ELSE IF Path_new(pcPath) # SUCCESS THEN fail(Path_new(pcPath))
        ELSE IF rT.iStatus # SUCCESS THEN fail(rT.iStatus)
        ELSE IF oNParent = NULL THEN fail(NO_SUCH_PATH)
        ELSE IF rP.iStatus # SUCCESS THEN fail(rP.iStatus)
        ELSE IF Path_comparePath(s.dirs[oNParent].oPPath, rP.oPResult) # 0
             THEN fail(NO_SUCH_PATH)
        ELSE IF ~rHas.bFound THEN fail(NO_SUCH_PATH)
        ELSE [iStatus |-> SUCCESS,
              oNResult |-> s.dirs[oNParent].oDFileChildren[rHas.ulIndex + 1]]

\* what FT_containsDir returns in state s
FT_containsDir_result(s, pcPath) == FT_findDir(s, pcPath).iStatus = SUCCESS

\* a FT_containsFile that finds no file
FT_containsFile_never(s, pcPath) == FALSE

\* what FT_containsFile returns in state s
FT_containsFile_result(s, pcPath) == FT_findFile(s, pcPath).iStatus = SUCCESS

\* the pointer FT_getFileContents returns in state s
FT_getFileContents_result(s, pcPath) ==
    LET rFind == FT_findFile(s, pcPath)
    IN  IF rFind.iStatus # SUCCESS THEN NULL
        ELSE s.files[rFind.oNResult].pvContents

\* what FT_stat returns and leaves in *pbIsFile and *pulSize, which hold
\* bIsFileIn and ulSizeIn when it is called
FT_stat_result(s, pcPath, bIsFileIn, ulSizeIn) ==
    LET rDir == FT_findDir(s, pcPath)
        rFile == FT_findFile(s, pcPath)
    IN  IF rDir.iStatus = SUCCESS
        THEN [iStatus |-> rDir.iStatus, bIsFile |-> FALSE,
              ulSize |-> ulSizeIn]
        ELSE IF rFile.iStatus = SUCCESS
        THEN [iStatus |-> rFile.iStatus, bIsFile |-> TRUE,
              ulSize |-> s.files[rFile.oNResult].ulLength]
        ELSE [iStatus |-> rDir.iStatus, bIsFile |-> bIsFileIn,
              ulSize |-> ulSizeIn]

(***************************************************************************)
(* ft.c: FT_init and FT_destroy.                                           *)
(***************************************************************************)
FT_init_result(s) ==
    IF s.bIsInitialized THEN [iStatus |-> INITIALIZATION_ERROR, s |-> s]
    ELSE [iStatus |-> SUCCESS,
          s |-> [s EXCEPT !.bIsInitialized = TRUE, !.oNRoot = NULL,
                          !.ulDirCount = 0]]

\* bAssert: what assert(ulDirCount == 0) is evaluated to
FT_destroy_result(s) ==
    LET r == IF s.oNRoot # NULL THEN NodeD_free(s, s.oNRoot)
             ELSE [s |-> s, ulCount |-> 0]
        ulNew == s.ulDirCount - r.ulCount
    IN  IF ~s.bIsInitialized
        THEN [iStatus |-> INITIALIZATION_ERROR, s |-> s, bAssert |-> TRUE]
        ELSE [iStatus |-> SUCCESS,
              s |-> [r.s EXCEPT !.bIsInitialized = FALSE, !.oNRoot = NULL,
                                !.ulDirCount = ulNew, !.freed = {}],
              bAssert |-> (ulNew = 0)]

(***************************************************************************)
(* ft.c: FT_insertDir and FT_insertFile.  ulFailAt is the level of the     *)
(* path at which an allocation fails, 0 when none does.                    *)
(***************************************************************************)
\* a FreeNew that releases nothing
FreeNew_leak(s, oNFirstNew) == s

\* the release of the nodes built so far by a failing insertion
FreeNew(s, oNFirstNew) ==
    IF oNFirstNew # NULL THEN NodeD_free(s, oNFirstNew).s ELSE s

RECURSIVE FT_insertDir_loop(_, _, _, _, _, _, _)
\* the while loop of FT_insertDir, from level ulIndex on
FT_insertDir_loop(s, oPPath, oNCurr, oNFirstNew, ulIndex, ulNewNodes, ulFailAt) ==
    IF ulIndex > Path_getDepth(oPPath)
    THEN [iStatus |-> SUCCESS, s |-> s, oNFirstNew |-> oNFirstNew,
          ulNewNodes |-> ulNewNodes]
    ELSE LET oPPrefix == Path_prefix(oPPath, ulIndex).oPResult
             rNew == NodeD_new(s, oPPrefix, oNCurr, ulFailAt = ulIndex)
             fail(iStatus) ==
                 [iStatus |-> iStatus, s |-> FreeNew(s, oNFirstNew),
                  oNFirstNew |-> NULL, ulNewNodes |-> 0]
         IN  IF FT_containsFile_result(s, oPPrefix)
             THEN fail(NOT_A_DIRECTORY)
             ELSE IF rNew.iStatus # SUCCESS THEN fail(rNew.iStatus)
             ELSE FT_insertDir_loop(rNew.s, oPPath, rNew.oNdResult,
                      IF oNFirstNew = NULL THEN rNew.oNdResult
                      ELSE oNFirstNew,
                      ulIndex + 1, ulNewNodes + 1, ulFailAt)

\* a FT_insertDir_inTree that recognises no directory
FT_insertDir_inTree_never(s, oNCurr, oPPath) == FALSE

\* the test of FT_insertDir for a path that is in the tree already: the
\* deepest directory oNCurr that FT_traversePath reached is the path itself
FT_insertDir_inTree(s, oNCurr, oPPath) ==
    /\ Path_getDepth(s.dirs[oNCurr].oPPath) + 1 = Path_getDepth(oPPath) + 1
    /\ Path_comparePath(oPPath, s.dirs[oNCurr].oPPath) = 0

\* what FT_insertDir returns and the state it leaves
FT_insertDir_result(s, pcPath, ulFailAt) ==
    LET same(iStatus) == [iStatus |-> iStatus, s |-> s]
        rT == FT_traversePath(s, pcPath)
        oNCurr == rT.oNFurthest
        ulDepth == Path_getDepth(pcPath)
        ulIndex == IF oNCurr = NULL THEN 1
                   ELSE Path_getDepth(s.dirs[oNCurr].oPPath) + 1
        rL == FT_insertDir_loop(s, pcPath, oNCurr, NULL, ulIndex, 0,
                                ulFailAt)
    IN  IF ~s.bIsInitialized THEN same(INITIALIZATION_ERROR)
        ELSE IF Path_new(pcPath) # SUCCESS THEN same(Path_new(pcPath))
        ELSE IF rT.iStatus # SUCCESS THEN same(rT.iStatus)
        ELSE IF oNCurr = NULL /\ s.oNRoot # NULL THEN same(CONFLICTING_PATH)
        ELSE IF oNCurr # NULL /\ FT_insertDir_inTree(s, oNCurr, pcPath)
             THEN same(ALREADY_IN_TREE)
        ELSE IF rL.iStatus # SUCCESS
             THEN [iStatus |-> rL.iStatus, s |-> rL.s]
        ELSE [iStatus |-> SUCCESS,
              s |-> [rL.s EXCEPT
                        !.oNRoot = IF @ = NULL THEN rL.oNFirstNew ELSE @,
                        !.ulDirCount = @ + rL.ulNewNodes]]

RECURSIVE FT_insertFile_loop(_, _, _, _, _, _, _)
\* the while loop of FT_insertFile, which stops before the last level
FT_insertFile_loop(s, oPPath, oNParent, oNFirstNew, ulIndex, ulNewNodes, ulFailAt) ==
    IF ~(ulIndex < Path_getDepth(oPPath))
    THEN [iStatus |-> SUCCESS, s |-> s, oNParent |-> oNParent,
          oNFirstNew |-> oNFirstNew, ulNewNodes |-> ulNewNodes]
    ELSE LET oPPrefix == Path_prefix(oPPath, ulIndex).oPResult
             rNew == NodeD_new(s, oPPrefix, oNParent, ulFailAt = ulIndex)
             fail(iStatus) ==
                 [iStatus |-> iStatus, s |-> FreeNew(s, oNFirstNew),
                  oNParent |-> NULL, oNFirstNew |-> NULL, ulNewNodes |-> 0]
         IN  IF FT_containsFile_result(s, oPPrefix)
             THEN fail(NOT_A_DIRECTORY)
             ELSE IF rNew.iStatus # SUCCESS THEN fail(rNew.iStatus)
             ELSE FT_insertFile_loop(rNew.s, oPPath, rNew.oNdResult,
                      IF oNFirstNew = NULL THEN rNew.oNdResult
                      ELSE oNFirstNew,
                      ulIndex + 1, ulNewNodes + 1, ulFailAt)

\* a FT_insertFile_inTree that looks at the children of oNParent only
FT_insertFile_inTree_children(s, oNParent, oPPath) ==
    \/ NodeD_hasFileChild(s, oNParent, oPPath).bFound
    \/ NodeD_hasDirChild(s, oNParent, oPPath).bFound

\* the test of FT_insertFile for a path that is in the tree already, made on
\* the deepest directory oNParent that FT_traversePath reached
FT_insertFile_inTree(s, oNParent, oPPath) ==
    \/ NodeD_hasFileChild(s, oNParent, oPPath).bFound
    \/ NodeD_hasDirChild(s, oNParent, oPPath).bFound
    \/ Path_comparePath(s.dirs[oNParent].oPPath, oPPath) = 0

\* what FT_insertFile returns and the state it leaves; ulFailAt = depth is a
\* failure in NodeF_new, depth + 1 one in NodeD_addFileChild
FT_insertFile_result(s, pcPath, pvContents, ulLength, ulFailAt) ==
    LET same(iStatus) == [iStatus |-> iStatus, s |-> s]
        rT == FT_traversePath(s, pcPath)
        oNParent == rT.oNFurthest
        ulDepth == Path_getDepth(pcPath)
        ulIndex == IF oNParent = NULL THEN 1
                   ELSE Path_getDepth(s.dirs[oNParent].oPPath) + 1
        rL == FT_insertFile_loop(s, pcPath, oNParent, NULL, ulIndex, 0,
                                 ulFailAt)
        \* the new file node is not released: it is lost, not in the tree
        undone(iStatus) == [iStatus |-> iStatus,
                            s |-> FreeNew(rL.s, rL.oNFirstNew)]
        rF == NodeF_new(rL.s, pcPath, ulFailAt = ulDepth)
        rHas == NodeD_hasFileChild(rF.s, rL.oNParent, pcPath)
        \* pvContents and ulLength are not used: the node keeps what
        \* NodeF_new gave it
        sNew == NodeD_addFileChild(rF.s, rL.oNParent, rF.oNfResult,
                                   rHas.ulIndex)
    IN  IF ~s.bIsInitialized THEN same(INITIALIZATION_ERROR)
        ELSE IF Path_new(pcPath) # SUCCESS THEN same(Path_new(pcPath))
        ELSE IF Path_getDepth(pcPath) = 1 THEN same(CONFLICTING_PATH)
        ELSE IF rT.iStatus # SUCCESS THEN same(rT.iStatus)
        ELSE IF oNParent = NULL /\ s.oNRoot # NULL
             THEN same(CONFLICTING_PATH)
        ELSE IF oNParent # NULL /\ FT_insertFile_inTree(s, oNParent, pcPath)
             THEN same(ALREADY_IN_TREE)
        ELSE IF rL.iStatus # SUCCESS
             THEN [iStatus |-> rL.iStatus, s |-> rL.s]
        ELSE IF rF.iStatus # SUCCESS THEN undone(rF.iStatus)
        ELSE IF rHas.bFound THEN [iStatus |-> ALREADY_IN_TREE, s |-> rL.s]
        ELSE IF ulFailAt = ulDepth + 1 THEN undone(MEMORY_ERROR)
        ELSE [iStatus |-> SUCCESS,
              \* ulNewNodes++ once the file is linked, then
              \* ulDirCount += ulNewNodes
              s |-> [sNew EXCEPT
                        !.oNRoot = IF @ = NULL THEN rL.oNFirstNew ELSE @,
                        !.ulDirCount = @ + (rL.ulNewNodes + 1)]]

(***************************************************************************)
(* ft.c: FT_rmDir and FT_rmFile.                                           *)
(***************************************************************************)
\* what the memory of a released directory node still holds: NodeD_free
\* emptied both child arrays before it released them
StaleCell(cell) ==
    [cell EXCEPT !.oDDirChildren = << >>, !.oDFileChildren = << >>]

\* what FT_rmDir returns and the state it leaves when the process survives
\* the assertion that follows NodeD_free
FT_rmDir_result(s, pcPath) ==
    LET rFind == FT_findDir(s, pcPath)
        oNFound == rFind.oNResult
        rFree == NodeD_free(s, oNFound)
        ulNew == s.ulDirCount - rFree.ulCount
    IN  IF rFind.iStatus # SUCCESS THEN [iStatus |-> rFind.iStatus, s |-> s]
        ELSE [iStatus |-> SUCCESS,
              s |-> IF ulNew = 0
                    THEN [rFree.s EXCEPT !.ulDirCount = ulNew,
                                         !.oNRoot = NULL, !.freed = {}]
                    ELSE IF oNFound = s.oNRoot
                    \* oNRoot keeps pointing at the released node
                    THEN [rFree.s EXCEPT
                            !.ulDirCount = ulNew,
                            !.dirs = [i \in DOMAIN rFree.s.dirs
                                            \cup {oNFound} |->
                                        IF i = oNFound
                                        THEN StaleCell(s.dirs[oNFound])
                                        ELSE rFree.s.dirs[i]],
                            !.freed = @ \cup {oNFound}]
                    ELSE [rFree.s EXCEPT !.ulDirCount = ulNew]]

\* the nodes that NodeD_free(oNFound) releases in FT_rmDir(pcPath), and
\* the nodes that FT_rmDir reads after that call: its assertion, when
\* assert() is compiled in (bNDEBUG says it is not), takes the array of
\* directory children out of oNFound
FT_rmDir_accesses(s, pcPath, bNDEBUG) ==
    LET rFind == FT_findDir(s, pcPath)
        oNFound == rFind.oNResult
    IN  IF rFind.iStatus # SUCCESS
        THEN [released |-> {}, readAfter |-> {}]
        ELSE [released |-> DOMAIN s.dirs
                               \ DOMAIN NodeD_free(s, oNFound).s.dirs,
              readAfter |-> IF bNDEBUG THEN {} ELSE {oNFound}]

FT_rmFile_result(s, pcPath) ==
    LET rFind == FT_findFile(s, pcPath)
        oNFound == rFind.oNResult
        oNdParent == FT_traversePath(s, s.files[oNFound].oPPath).oNFurthest
        ulIndex == NodeD_hasFileChild(s, oNdParent,
                                      s.files[oNFound].oPPath).ulIndex
    IN  IF rFind.iStatus # SUCCESS THEN [iStatus |-> rFind.iStatus, s |-> s]
        ELSE [iStatus |-> SUCCESS,
              s |-> [NodeF_free(s, oNFound)
                        EXCEPT !.dirs[oNdParent].oDFileChildren =
                            DynArray_removeAt(@, ulIndex)]]

(***************************************************************************)
(* ft.c and nodef.c: FT_replaceFileContents.                               *)
(***************************************************************************)
NodeF_replaceLength(cell, ulNewLength) ==
    [cell EXCEPT !.ulLength = ulNewLength]

\* a NodeF_replaceContents that stores nothing
NodeF_replaceContents_keep(cell, pvNewContents) == cell

NodeF_replaceContents(cell, pvNewContents) ==
    [cell EXCEPT !.pvContents = pvNewContents]

\* the pointer FT_replaceFileContents returns and the state it leaves
FT_replaceFileContents_result(s, pcPath, pvNewContents, ulNewLength) ==
    LET rFind == FT_findFile(s, pcPath)
        oNFound == rFind.oNResult
    IN  IF rFind.iStatus # SUCCESS THEN [pvResult |-> NULL, s |-> s]
        ELSE [pvResult |-> s.files[oNFound].pvContents,
              s |-> [s EXCEPT !.files[oNFound] =
                        NodeF_replaceContents(
                            NodeF_replaceLength(@, ulNewLength),
                            pvNewContents)]]

(***************************************************************************)
(* ft.c and noded.c: FT_toString.  A string is the sequence of its lines,  *)
(* each line a path.                                                       *)
(***************************************************************************)
RECURSIVE FT_preOrderTraversal(_, _)
RECURSIVE FT_preOrderTraversal_from(_, _, _)
\* the directory children of n from the c-th on, each with its subtree
FT_preOrderTraversal_from(s, n, c) ==
    IF c > Len(s.dirs[n].oDDirChildren) THEN << >>
    ELSE FT_preOrderTraversal(s, s.dirs[n].oDDirChildren[c])
             \o FT_preOrderTraversal_from(s, n, c + 1)

\* the directory nodes in the order FT_preOrderTraversal stores them
FT_preOrderTraversal(s, n) ==
    IF n = NULL THEN << >>
    ELSE <<n>> \o FT_preOrderTraversal_from(s, n, 1)

\* the path of the directory, then the paths of its file children
NodeD_toString(s, oNdNode) ==
    <<s.dirs[oNdNode].oPPath>> \o FileChildPaths(s, oNdNode)

RECURSIVE FT_strcatAccumulate(_, _, _)
\* the strings of the nodes from the i-th on, one after the other
FT_strcatAccumulate(s, nodes, i) ==
    IF i > Len(nodes) THEN << >>
    ELSE NodeD_toString(s, nodes[i]) \o FT_strcatAccumulate(s, nodes, i + 1)

\* what FT_toString returns: NULL (bNull) or the string pcResult; bFail says
\* that the allocation of the result fails
FT_toString_result(s, bFail) ==
    IF ~s.bIsInitialized \/ bFail THEN [bNull |-> TRUE, pcResult |-> << >>]
    ELSE [bNull |-> FALSE,
          pcResult |-> FT_strcatAccumulate(s,
                           FT_preOrderTraversal(s, s.oNRoot), 1)]

(***************************************************************************)
(* The actions: a client calls any operation, with any argument, at any    *)
(* time.  Two things are not decided by the code:                          *)
(*  - whether assert() is compiled in (bNDEBUG says it is not); each call   *)
(*    draws it anew, so the behaviours of both builds are covered;         *)
(*  - what an access to released memory does.  It either ends the process  *)
(*    (bCrash) or finds the memory as free() left it, see StaleCell.       *)
(***************************************************************************)
Init ==
    /\ bIsInitialized = FALSE
    /\ oNRoot = NULL
    /\ ulDirCount = 0
    /\ dirs = << >>
    /\ files = << >>
    /\ freed = {}
    /\ bAborted = FALSE
    /\ dtNodes = << >>

\* the call returns and leaves state s
Return(s) ==
    /\ bIsInitialized' = s.bIsInitialized
    /\ oNRoot' = s.oNRoot
    /\ ulDirCount' = s.ulDirCount
    /\ dirs' = s.dirs
    /\ files' = s.files
    /\ freed' = s.freed
    /\ UNCHANGED <<bAborted, dtNodes>>

\* the process ends inside the call
Abort ==
    /\ bAborted' = TRUE
    /\ UNCHANGED <<bIsInitialized, oNRoot, ulDirCount, dirs, files, freed,
                   dtNodes>>

\* a call that walks the tree from the root reads released memory
ReadsFreedRoot == bIsInitialized /\ oNRoot # NULL /\ oNRoot \in freed

\* what such a read may do
Crashes == IF ReadsFreedRoot THEN BOOLEAN ELSE {FALSE}

\* the levels at which an insertion of pcPath allocates, up to ulLast, and 0
FailLevels(pcPath, ulLast) ==
    LET rT == FT_traversePath(S, pcPath)
    IN  IF ~bIsInitialized \/ Path_new(pcPath) # SUCCESS
           \/ rT.iStatus # SUCCESS
        THEN {0}
        ELSE IF rT.oNFurthest = NULL THEN 0..ulLast
        ELSE {0} \cup
             ((Path_getDepth(dirs[rT.oNFurthest].oPPath) + 1)..ulLast)

\* what the assertion of FT_rmDir may do, which is reached when the directory
\* was found
AssertOutcomes(pcPath) ==
    IF FT_findDir(S, pcPath).iStatus = SUCCESS THEN BOOLEAN ELSE {FALSE}

FT_init ==
    /\ ~bAborted
    /\ Return(FT_init_result(S).s)

FT_destroy(bNDEBUG, bCrash) ==
    /\ ~bAborted
    /\ IF bCrash \/ (~bNDEBUG /\ ~FT_destroy_result(S).bAssert)
       THEN Abort
       ELSE Return(FT_destroy_result(S).s)

FT_insertDir(pcPath, ulFailAt, bCrash) ==
    /\ ~bAborted
    /\ IF bCrash /\ Path_new(pcPath) = SUCCESS
       THEN Abort
       ELSE LET r == FT_insertDir_result(S, pcPath, ulFailAt)
            IN  /\ r.s.ulDirCount <= MaxCount
                /\ Return(r.s)

FT_insertFile(pcPath, pvContents, ulLength, ulFailAt, bCrash) ==
    /\ ~bAborted
    /\ IF bCrash /\ Path_new(pcPath) = SUCCESS /\ Path_getDepth(pcPath) # 1
       THEN Abort
       ELSE LET r == FT_insertFile_result(S, pcPath, pvContents, ulLength,
                                          ulFailAt)
            IN  /\ r.s.ulDirCount <= MaxCount
                /\ Return(r.s)

\* bAssertFails: assert() is compiled in and the assertion after NodeD_free,
\* which reads the node just released, is evaluated to false
FT_rmDir(pcPath, bAssertFails, bCrash) ==
    /\ ~bAborted
    /\ LET r == FT_rmDir_result(S, pcPath)
       IN  IF \/ bCrash /\ Path_new(pcPath) = SUCCESS
              \/ r.iStatus = SUCCESS /\ bAssertFails
           THEN Abort
           ELSE Return(r.s)

FT_rmFile(pcPath, bCrash) ==
    /\ ~bAborted
    /\ IF bCrash /\ Path_new(pcPath) = SUCCESS
       THEN Abort
       ELSE Return(FT_rmFile_result(S, pcPath).s)

FT_replaceFileContents(pcPath, pvNewContents, ulNewLength, bCrash) ==
    /\ ~bAborted
    /\ IF bCrash /\ Path_new(pcPath) = SUCCESS
       THEN Abort
       ELSE Return(FT_replaceFileContents_result(S, pcPath, pvNewContents,
                                                 ulNewLength).s)

\* the four queries assign to nothing but their results
FT_containsDir(pcPath, bCrash) ==
    /\ ~bAborted
    /\ IF bCrash /\ Path_new(pcPath) = SUCCESS
       THEN Abort
       ELSE /\ FT_containsDir_result(S, pcPath) \in BOOLEAN
            /\ UNCHANGED vars

\* a FT_containsFile that sets the counter to 0
FT_containsFile_resets(pcPath, bCrash) ==
    /\ ~bAborted
    /\ Return([S EXCEPT !.ulDirCount = 0])

FT_containsFile(pcPath, bCrash) ==
    /\ ~bAborted
    /\ IF bCrash /\ Path_new(pcPath) = SUCCESS
       THEN Abort
       ELSE /\ FT_containsFile_result(S, pcPath) \in BOOLEAN
            /\ UNCHANGED vars

FT_getFileContents(pcPath, bCrash) ==
    /\ ~bAborted
    /\ IF bCrash /\ Path_new(pcPath) = SUCCESS
       THEN Abort
       ELSE /\ FT_getFileContents_result(S, pcPath) \in Handles
            /\ UNCHANGED vars

\* *pbIsFile and *pulSize are the caller's: see FT_stat_result
FT_stat(pcPath, bCrash) ==
    /\ ~bAborted
    /\ IF bCrash /\ Path_new(pcPath) = SUCCESS
       THEN Abort
       ELSE /\ \A bIsFileIn \in BOOLEAN, ulSizeIn \in Lengths :
                 FT_stat_result(S, pcPath, bIsFileIn, ulSizeIn).bIsFile
                     \in BOOLEAN
            /\ UNCHANGED vars

FT_toString(bFail, bCrash) ==
    /\ ~bAborted
    /\ IF bCrash
       THEN Abort
       ELSE /\ FT_toString_result(S, bFail).bNull \in BOOLEAN
            /\ UNCHANGED vars

Next ==
    \/ FT_init
    \/ \E bNDEBUG \in BOOLEAN, bCrash \in Crashes :
            FT_destroy(bNDEBUG, bCrash)
    \/ \E pcPath \in PathStrings, bCrash \in Crashes :
          \E ulFailAt \in FailLevels(pcPath, Len(pcPath)) :
            FT_insertDir(pcPath, ulFailAt, bCrash)
    \/ \E pcPath \in PathStrings, buf \in Buffers, bCrash \in Crashes :
          \E ulFailAt \in FailLevels(pcPath, Len(pcPath) + 1) :
            FT_insertFile(pcPath, buf[1], buf[2], ulFailAt, bCrash)
    \/ \E pcPath \in PathStrings, bCrash \in Crashes :
          \E bAssertFails \in AssertOutcomes(pcPath) :
            FT_rmDir(pcPath, bAssertFails, bCrash)
    \/ \E pcPath \in PathStrings, bCrash \in Crashes :
            FT_rmFile(pcPath, bCrash)
    \/ \E pcPath \in PathStrings, buf \in Buffers, bCrash \in Crashes :
            FT_replaceFileContents(pcPath, buf[1], buf[2], bCrash)
    \/ \E pcPath \in PathStrings, bCrash \in Crashes :
            FT_containsDir(pcPath, bCrash)
    \/ \E pcPath \in PathStrings, bCrash \in Crashes :
            FT_containsFile(pcPath, bCrash)
    \/ \E pcPath \in PathStrings, bCrash \in Crashes :
            FT_getFileContents(pcPath, bCrash)
    \/ \E pcPath \in PathStrings, bCrash \in Crashes :
            FT_stat(pcPath, bCrash)
    \/ \E bFail \in BOOLEAN, bCrash \in Crashes :
            FT_toString(bFail, bCrash)

Spec == Init /\ [][Next]_vars

(***************************************************************************)
(* checkerDT.c (src/unnamed/part_000): the checker of the directory tree.  *)
(* It is handed the three statics of a tree and reads the nodes through    *)
(* the accessors of its node module.  A node is a cell of the heap h with  *)
(* its path, its parent pointer and the array of its children.             *)
(***************************************************************************)
Node_getPath(h, oNNode) == h[oNNode].oPPath

Node_getParent(h, oNNode) == h[oNNode].oNParent

Node_getNumChildren(h, oNNode) == Len(h[oNNode].oDChildren)

\* the child at the 0-based index ulChildID
Node_getChild(h, oNNode, ulChildID) == h[oNNode].oDChildren[ulChildID + 1]

\* CheckerDT_Node_isValid, the check of the parent: FALSE is the early
\* return
CheckerDT_Node_parentValid(h, oNNode) ==
    LET oNParent == Node_getParent(h, oNNode)
        oPNPath == Node_getPath(h, oNNode)
        oPPPath == Node_getPath(h, oNParent)
    IN  oNParent # NULL =>
            ~(Path_getSharedPrefixDepth(oPNPath, oPPPath)
                  # Path_getDepth(oPNPath) - 1)

\* a check of the children that accepts every array
CheckerDT_Node_childrenValid_any(h, oNNode) == TRUE

\* a check of the children whose inner loop starts at j = i, so that every
\* child is compared with itself
CheckerDT_Node_childrenValid_self(h, oNNode) ==
    Node_getNumChildren(h, oNNode) = 0

\* CheckerDT_Node_isValid, the two loops over the children: the loops
\* return FALSE at the first pair that fails, so that they return TRUE
\* when no i and no j fails
CheckerDT_Node_childrenValid(h, oNNode) ==
    LET oPNPath == Node_getPath(h, oNNode)
        ulNum == Node_getNumChildren(h, oNNode)
    IN  \A i \in 0..(ulNum - 1) :
            LET oPChildPath1 == Node_getPath(h, Node_getChild(h, oNNode, i))
            IN  /\ ~(Path_comparePath(oPNPath, oPChildPath1) = 0)
                /\ \A j \in (i + 1)..(ulNum - 1) :
                       LET oPChildPath2 ==
                               Node_getPath(h, Node_getChild(h, oNNode, j))
                       IN  /\ ~(Path_comparePath(oPChildPath1,
                                                 oPChildPath2) = 0)
                           /\ Path_comparePath(oPChildPath1,
                                               oPChildPath2) < 0

CheckerDT_Node_isValid(h, oNNode) ==
    IF oNNode = NULL THEN FALSE
    ELSE IF ~CheckerDT_Node_parentValid(h, oNNode) THEN FALSE
    ELSE CheckerDT_Node_childrenValid(h, oNNode)

RECURSIVE CheckerDT_treeCheck(_, _)
RECURSIVE CheckerDT_treeCheck_from(_, _, _, _)
\* the loop of CheckerDT_treeCheck over the children of oNNode from index
\* ulIndex on; visited are the nodes CheckerDT_Node_isValid was called on
CheckerDT_treeCheck_from(h, oNNode, ulIndex, visited) ==
    IF ~(ulIndex < Node_getNumChildren(h, oNNode))
    THEN [bValid |-> TRUE, visited |-> visited]
    ELSE LET r == CheckerDT_treeCheck(h, Node_getChild(h, oNNode, ulIndex))
         IN  IF ~r.bValid
             THEN [bValid |-> FALSE, visited |-> visited \o r.visited]
             ELSE CheckerDT_treeCheck_from(h, oNNode, ulIndex + 1,
                                           visited \o r.visited)

CheckerDT_treeCheck(h, oNNode) ==
    IF oNNode # NULL
    THEN IF ~CheckerDT_Node_isValid(h, oNNode)
         THEN [bValid |-> FALSE, visited |-> <<oNNode>>]
         ELSE CheckerDT_treeCheck_from(h, oNNode, 0, <<oNNode>>)
    ELSE [bValid |-> TRUE, visited |-> << >>]

\* a check of the statics that accepts every combination
CheckerDT_isValid_statics_any(bInit, oNRootArg, ulCount) == TRUE

\* CheckerDT_isValid, the four checks of the statics: FALSE is an early
\* return
CheckerDT_isValid_statics(bInit, oNRootArg, ulCount) ==
    /\ ~(~bInit /\ ulCount # 0)
    /\ ~(~bInit /\ oNRootArg # NULL)
    /\ ~(oNRootArg = NULL /\ ulCount # 0)
    /\ ~(oNRootArg # NULL /\ ulCount = 0)

\* what CheckerDT_isValid returns, and the nodes it visited
CheckerDT_isValid_result(h, bInit, oNRootArg, ulCount) ==
    IF ~CheckerDT_isValid_statics(bInit, oNRootArg, ulCount)
    THEN [bValid |-> FALSE, visited |-> << >>]
    ELSE CheckerDT_treeCheck(h, oNRootArg)

(***************************************************************************)
(* The checker at work: a directory tree under test, correct or not,      *)
(* builds a structure node by node, and CheckerDT_isValid is called on it  *)
(* with any flag, any node of it as the root, and any count.               *)
(***************************************************************************)
DTRoots == {NULL} \cup DOMAIN dtNodes
DTCounts == 0..MaxNodes

\* a node with path oPPath and parent pointer oNParent becomes the last
\* child of oNContainer, or the first node of the structure
DT_addNode(oNContainer, oPPath, oNParent) ==
    /\ Len(dtNodes) < MaxNodes
    /\ LET oNNew == Len(dtNodes) + 1
           cell == [oPPath |-> oPPath, oNParent |-> oNParent,
                    oDChildren |-> << >>]
       IN  dtNodes' =
               IF oNContainer = NULL THEN Append(dtNodes, cell)
               ELSE Append([dtNodes EXCEPT ![oNContainer].oDChildren =
                                Append(@, oNNew)], cell)
    /\ UNCHANGED <<bIsInitialized, oNRoot, ulDirCount, dirs, files, freed,
                   bAborted>>

CheckerDT_isValid(bInit, oNRootArg, ulCount) ==
    /\ CheckerDT_isValid_result(dtNodes, bInit, oNRootArg, ulCount).bValid
           \in BOOLEAN
    /\ UNCHANGED vars

NextChecker ==
    \/ \E oPPath \in Paths, oNParent \in DTRoots :
          \E oNContainer \in IF dtNodes = << >> THEN {NULL}
                              ELSE DOMAIN dtNodes :
            DT_addNode(oNContainer, oPPath, oNParent)
    \/ \E bInit \in BOOLEAN, oNRootArg \in DTRoots, ulCount \in DTCounts :
            CheckerDT_isValid(bInit, oNRootArg, ulCount)

SpecChecker == Init /\ [][NextChecker]_vars

(***************************************************************************)
(* What the claims speak of.                                               *)
(***************************************************************************)
\* the directory nodes whose memory is allocated
LiveDirs == DOMAIN dirs \ freed

\* the nodes of the tree, directories and files
Nodes == ({"dir"} \X DOMAIN dirs) \cup ({"file"} \X DOMAIN files)

NodePath(n) == IF n[1] = "dir" THEN dirs[n[2]].oPPath ELSE files[n[2]].oPPath

\* the file nodes with path oPPath
FilesAt(oPPath) == {f \in DOMAIN files : files[f].oPPath = oPPath}

\* the directory nodes with path oPPath
DirsAt(oPPath) == {d \in DOMAIN dirs : dirs[d].oPPath = oPPath}

\* oPPath1 is a proper prefix of oPPath2
IsProperPrefix(oPPath1, oPPath2) ==
    /\ Len(oPPath1) < Len(oPPath2)
    /\ SubSeq(oPPath2, 1, Len(oPPath1)) = oPPath1

\* arr is strictly ascending, arr being a sequence of paths
StrictlyAscending(arr) ==
    \A i \in 1..(Len(arr) - 1) : Path_comparePath(arr[i], arr[i + 1]) < 0

\* the prefixes of oPPath down to level ulDepth
Prefixes(oPPath, ulDepth) == {SubSeq(oPPath, 1, k) : k \in 1..ulDepth}

\* oPPath1 is oPPath2 or a proper prefix of it
IsPrefix(oPPath1, oPPath2) ==
    oPPath1 = oPPath2 \/ IsProperPrefix(oPPath1, oPPath2)

\* arr without the elements in gone, in the order of arr
Without(arr, gone) == SelectSeq(arr, LAMBDA x : x \notin gone)

\* oPPath names a node of the tree
NamesNode(oPPath) == DirsAt(oPPath) \ freed # {} \/ FilesAt(oPPath) # {}

\* a root exists and oPPath lies under it
UnderRoot(oPPath) ==
    /\ oNRoot \in LiveDirs
    /\ dirs[oNRoot].oPPath = SubSeq(oPPath, 1, 1)

\* the levels at which a failing allocation can be asked for
AllFailLevels(oPPath) == 0..(Path_getDepth(oPPath) + 1)

(***************************************************************************)
(* The claims.  A claim about what a call returns is stated over every     *)
(* reachable state: whatever the arguments, the call made in that state    *)
(* returns what the claim says.                                            *)
(***************************************************************************)

\* C1: after FT_insertFile(p, d, n) returns SUCCESS, FT_getFileContents(p)
\* returns d, as long as no change to p intervenes.
C1_InsertThenGetContents ==
    \A pcPath \in Paths : \A pvContents \in Handles : \A ulLength \in Lengths :
        LET r == FT_insertFile_result(S, pcPath, pvContents, ulLength, 0)
        IN  r.iStatus = SUCCESS =>
                FT_getFileContents_result(r.s, pcPath) = pvContents

\* C2: for an existing file p, FT_replaceFileContents(p, d', m) returns the
\* contents stored before, leaves p with contents d' and with the size m that
\* FT_stat reports, and changes no other file's contents or length.
C2_ReplaceFileContents ==
    \A pcPath \in Paths : \A f \in FilesAt(pcPath) :
        \A pvNewContents \in Handles : \A ulNewLength \in Lengths :
            LET r == FT_replaceFileContents_result(S, pcPath, pvNewContents,
                                                   ulNewLength)
                rStat == FT_stat_result(r.s, pcPath, FALSE,
                                        (ulNewLength + 1) % (MaxLen + 1))
            IN  /\ r.pvResult = files[f].pvContents
                /\ FT_getFileContents_result(r.s, pcPath) = pvNewContents
                /\ rStat = [iStatus |-> SUCCESS, bIsFile |-> TRUE,
                            ulSize |-> ulNewLength]
                /\ DOMAIN r.s.files = DOMAIN files
                /\ \A g \in DOMAIN files \ {f} : r.s.files[g] = files[g]
                /\ r.s.files[f].oPPath = pcPath

\* C2's case: two files are in the tree and one of them holds contents that
\* only FT_replaceFileContents can have stored, the other does not
C2_Witness ==
    \E f, g \in DOMAIN files :
        /\ files[f].pvContents # NULL
        /\ files[f].ulLength # 0
        /\ files[g].pvContents = NULL

\* C3: FT_stat on a path in the tree reports its kind, and for a file the
\* length given to the FT_insertFile or FT_replaceFileContents that last set
\* it; for a directory the size is left as the caller had it.
C3_StatReportsKindAndSize ==
    \A pcPath \in Paths :
        /\ \A ulSizeIn \in Lengths :
               DirsAt(pcPath) \ freed # {} =>
                   FT_stat_result(S, pcPath, TRUE, ulSizeIn) =
                       [iStatus |-> SUCCESS, bIsFile |-> FALSE,
                        ulSize |-> ulSizeIn]
        /\ \A pvContents \in Handles : \A ulLength \in Lengths :
               LET r == FT_insertFile_result(S, pcPath, pvContents,
                                             ulLength, 0)
               IN  r.iStatus = SUCCESS =>
                       FT_stat_result(r.s, pcPath, FALSE, 0) =
                           [iStatus |-> SUCCESS, bIsFile |-> TRUE,
                            ulSize |-> ulLength]
        /\ \A pvContents \in Handles : \A ulLength \in Lengths :
               FilesAt(pcPath) # {} =>
                   LET r == FT_replaceFileContents_result(S, pcPath,
                                pvContents, ulLength)
                   IN  FT_stat_result(r.s, pcPath, FALSE, 0) =
                           [iStatus |-> SUCCESS, bIsFile |-> TRUE,
                            ulSize |-> ulLength]

\* C4: no two distinct nodes of the tree, directories or files, have the same
\* absolute path.
C4_UniquePaths ==
    \A n1, n2 \in Nodes : NodePath(n1) = NodePath(n2) => n1 = n2

\* C4's case: directories and files share the tree, after insertions that
\* were refused because their path was in the tree could have been made
C4_Witness ==
    /\ Cardinality(DOMAIN dirs) >= 2
    /\ Cardinality(DOMAIN files) >= 2
    /\ \E d \in DOMAIN dirs : Len(dirs[d].oDFileChildren) = 2

\* C5: every child, directory or file, is one level below its parent and
\* shares with it a prefix as deep as the parent; the parent reference stored
\* in a directory other than the root is the directory that lists it.
C5_ParentPrefix ==
    /\ \A d \in DOMAIN dirs :
           LET ulParentDepth == Path_getDepth(dirs[d].oPPath)
               below(oPChild) ==
                   /\ Path_getDepth(oPChild) = ulParentDepth + 1
                   /\ Path_getSharedPrefixDepth(oPChild, dirs[d].oPPath) =
                          ulParentDepth
           IN  /\ \A i \in 1..Len(dirs[d].oDDirChildren) :
                      /\ dirs[d].oDDirChildren[i] \in DOMAIN dirs
                      /\ below(DirChildPaths(S, d)[i])
               /\ \A i \in 1..Len(dirs[d].oDFileChildren) :
                      /\ dirs[d].oDFileChildren[i] \in DOMAIN files
                      /\ below(FileChildPaths(S, d)[i])
    /\ \A n \in DOMAIN dirs \ {oNRoot} :
           /\ dirs[n].oNdParent \in DOMAIN dirs
           /\ \E i \in 1..Len(dirs[dirs[n].oNdParent].oDDirChildren) :
                  dirs[dirs[n].oNdParent].oDDirChildren[i] = n

\* C5's case: a directory two levels below the root, and a file below a
\* directory that is not the root
C5_Witness ==
    /\ \E n \in DOMAIN dirs :
           /\ n # oNRoot
           /\ dirs[n].oNdParent # oNRoot
           /\ dirs[n].oNdParent # NULL
    /\ \E d \in DOMAIN dirs \ {oNRoot} : Len(dirs[d].oDFileChildren) >= 1

\* C6: in every directory, the array of file children and the array of
\* directory children are each strictly ascending by path.
C6_SiblingsAscending ==
    \A d \in DOMAIN dirs :
        /\ StrictlyAscending(DirChildPaths(S, d))
        /\ StrictlyAscending(FileChildPaths(S, d))

\* C6's case: a directory with two directory children, and in the same tree
\* a directory with a file child
C6_Witness ==
    /\ \E d \in DOMAIN dirs : Len(dirs[d].oDDirChildren) = 2
    /\ \E d \in DOMAIN dirs : Len(dirs[d].oDFileChildren) >= 1

\* C7: files are leaves: no node's path has a file's path as a proper prefix.
C7_FilesAreLeaves ==
    \A f \in DOMAIN files : \A n \in Nodes :
        ~IsProperPrefix(files[f].oPPath, NodePath(n))

\* C7's case: a file at the second level beside a directory at the second
\* level that has a child of its own
C7_Witness ==
    \E f \in DOMAIN files : \E d \in DOMAIN dirs :
        /\ Path_getDepth(files[f].oPPath) = 2
        /\ Path_getDepth(dirs[d].oPPath) = 2
        /\ Len(dirs[d].oDDirChildren) + Len(dirs[d].oDFileChildren) >= 1

\* C8: between operations, the root reference is NULL exactly when the
\* counter is 0.
C8_RootNullIffCountZero ==
    ~bAborted => ((oNRoot = NULL) <=> (ulDirCount = 0))

\* C9: ulDirCount is the number of directory nodes in the tree; files are
\* not counted.
C9_CountIsDirectories ==
    ~bAborted => ulDirCount = Cardinality(LiveDirs)

\* C10: whenever FT_rmDir succeeds on the path of the root, the root
\* reference is NULL and the counter is 0 afterwards.
C10_RmDirOfRootEmptiesTree ==
    \A pcPath \in Paths :
        LET r == FT_rmDir_result(S, pcPath)
        IN  (/\ oNRoot \in LiveDirs
             /\ dirs[oNRoot].oPPath = pcPath
             /\ r.iStatus = SUCCESS)
            => (r.s.oNRoot = NULL /\ r.s.ulDirCount = 0)

\* C11: on an initialized tree, FT_insertDir(p) and FT_insertFile(p, ...)
\* return ALREADY_IN_TREE whenever p names a node of the tree, directory or
\* file, before the NOT_A_DIRECTORY and the file-at-root CONFLICTING_PATH rule.
C11_AlreadyInTree ==
    \A pcPath \in Paths :
        (bIsInitialized /\ NamesNode(pcPath)) =>
            /\ FT_insertDir_result(S, pcPath, 0).iStatus = ALREADY_IN_TREE
            /\ FT_insertFile_result(S, pcPath, NULL, 0, 0).iStatus =
                   ALREADY_IN_TREE

\* C12: FT_insertDir(p) and FT_insertFile(p, ...) return NOT_A_DIRECTORY
\* whenever a proper prefix of p is a file of the tree, and then create no
\* node and leave the counter as it was.
C12_NotADirectory ==
    \A pcPath \in Paths :
        (\E f \in DOMAIN files : IsProperPrefix(files[f].oPPath, pcPath)) =>
            \A ulFailAt \in AllFailLevels(pcPath) :
                /\ FT_insertDir_result(S, pcPath, ulFailAt) =
                       [iStatus |-> NOT_A_DIRECTORY, s |-> S]
                /\ \A b \in Buffers :
                       FT_insertFile_result(S, pcPath, b[1], b[2], ulFailAt)
                           = [iStatus |-> NOT_A_DIRECTORY, s |-> S]

\* C12's case: a file lies under a directory that has a directory child too,
\* and an insertion below the file is refused
C12_Witness ==
    \E f \in DOMAIN files : \E pcPath \in Paths :
        /\ IsProperPrefix(files[f].oPPath, pcPath)
        /\ \E d \in DOMAIN dirs : Len(dirs[d].oDDirChildren) >= 1
        /\ FT_insertDir_result(S, pcPath, 0).iStatus = NOT_A_DIRECTORY
        /\ FT_insertFile_result(S, pcPath, NULL, 0, 0).iStatus =
               NOT_A_DIRECTORY

\* C13: on an initialized tree, FT_insertDir(p) and FT_insertFile(p, ...)
\* return CONFLICTING_PATH when a root exists whose path is not the first
\* level of p, and FT_insertFile does for every p of depth 1; the tree and
\* the counter stay as they were.
C13_ConflictingPath ==
    \A pcPath \in Paths : \A ulFailAt \in AllFailLevels(pcPath) :
        /\ (/\ bIsInitialized
            /\ oNRoot \in LiveDirs
            /\ dirs[oNRoot].oPPath # SubSeq(pcPath, 1, 1)) =>
               /\ FT_insertDir_result(S, pcPath, ulFailAt) =
                      [iStatus |-> CONFLICTING_PATH, s |-> S]
               /\ \A b \in Buffers :
                      FT_insertFile_result(S, pcPath, b[1], b[2], ulFailAt)
                          = [iStatus |-> CONFLICTING_PATH, s |-> S]
        /\ (bIsInitialized /\ Path_getDepth(pcPath) = 1) =>
               \A b \in Buffers :
                   FT_insertFile_result(S, pcPath, b[1], b[2], ulFailAt)
                       = [iStatus |-> CONFLICTING_PATH, s |-> S]

\* C13's case: a root with a directory and a file below it, and insertions
\* of a path under another root that are refused
C13_Witness ==
    /\ oNRoot \in LiveDirs
    /\ Len(dirs[oNRoot].oDDirChildren) >= 1
    /\ DOMAIN files # {}
    /\ \E pcPath \in Paths :
           /\ Path_getDepth(pcPath) = 3
           /\ dirs[oNRoot].oPPath # SubSeq(pcPath, 1, 1)
           /\ FT_insertDir_result(S, pcPath, 0).iStatus = CONFLICTING_PATH
           /\ FT_insertFile_result(S, pcPath, NULL, 0, 0).iStatus =
                  CONFLICTING_PATH

\* C14: on an initialized tree and for p under the root, FT_rmDir(p) returns
\* NO_SUCH_PATH when p names no node and NOT_A_DIRECTORY when p names a file;
\* the tree and the counter stay as they were.
C14_RmDirErrors ==
    \A pcPath \in Paths :
        (bIsInitialized /\ UnderRoot(pcPath)) =>
            /\ ~NamesNode(pcPath) =>
                   FT_rmDir_result(S, pcPath) =
                       [iStatus |-> NO_SUCH_PATH, s |-> S]
            /\ FilesAt(pcPath) # {} =>
                   FT_rmDir_result(S, pcPath) =
                       [iStatus |-> NOT_A_DIRECTORY, s |-> S]

\* C15: on an initialized tree and for p under the root, FT_rmFile(p) returns
\* NOT_A_FILE when p names a directory and NO_SUCH_PATH when p names no node;
\* the tree stays as it was.
C15_RmFileErrors ==
    \A pcPath \in Paths :
        (bIsInitialized /\ UnderRoot(pcPath)) =>
            /\ DirsAt(pcPath) \ freed # {} =>
                   FT_rmFile_result(S, pcPath) =
                       [iStatus |-> NOT_A_FILE, s |-> S]
            /\ ~NamesNode(pcPath) =>
                   FT_rmFile_result(S, pcPath) =
                       [iStatus |-> NO_SUCH_PATH, s |-> S]

\* C16: on an initialized tree and for p under the root, FT_stat(p) returns
\* NO_SUCH_PATH when p names neither a directory nor a file; whenever FT_stat
\* returns another status than SUCCESS, *pbIsFile and *pulSize are as before.
C16_StatErrors ==
    \A pcPath \in PathStrings : \A bIsFileIn \in BOOLEAN :
        \A ulSizeIn \in Lengths :
            LET r == FT_stat_result(S, pcPath, bIsFileIn, ulSizeIn)
            IN  /\ (/\ bIsInitialized
                    /\ pcPath \in Paths
                    /\ UnderRoot(pcPath)
                    /\ ~NamesNode(pcPath)) => r.iStatus = NO_SUCH_PATH
                /\ r.iStatus # SUCCESS =>
                       r.bIsFile = bIsFileIn /\ r.ulSize = ulSizeIn

\* C17: while the tree is uninitialized, FT_insertDir, FT_insertFile,
\* FT_rmDir, FT_rmFile and FT_stat return INITIALIZATION_ERROR, FT_containsDir
\* and FT_containsFile return FALSE, FT_getFileContents,
\* FT_replaceFileContents and FT_toString return NULL, and none of them
\* changes the flag, the root or the counter.
C17_Uninitialized ==
    ~bIsInitialized =>
        /\ \A pcPath \in PathStrings :
               LET fails == [iStatus |-> INITIALIZATION_ERROR, s |-> S]
               IN  /\ \A ulFailAt \in AllFailLevels(pcPath) :
                          /\ FT_insertDir_result(S, pcPath, ulFailAt) = fails
                          /\ \A b \in Buffers :
                                 FT_insertFile_result(S, pcPath, b[1], b[2],
                                                      ulFailAt) = fails
                   /\ FT_rmDir_result(S, pcPath) = fails
                   /\ FT_rmFile_result(S, pcPath) = fails
                   /\ \A bIsFileIn \in BOOLEAN : \A ulSizeIn \in Lengths :
                          FT_stat_result(S, pcPath, bIsFileIn, ulSizeIn) =
                              [iStatus |-> INITIALIZATION_ERROR,
                               bIsFile |-> bIsFileIn, ulSize |-> ulSizeIn]
                   /\ ~FT_containsDir_result(S, pcPath)
                   /\ ~FT_containsFile_result(S, pcPath)
                   /\ FT_getFileContents_result(S, pcPath) = NULL
                   /\ \A b \in Buffers :
                          FT_replaceFileContents_result(S, pcPath, b[1], b[2])
                              = [pvResult |-> NULL, s |-> S]
        /\ \A bFail \in BOOLEAN : FT_toString_result(S, bFail).bNull

\* C17's case: the tree is uninitialized after a FT_destroy that left the
\* counter above 0, and a call is refused
C17_Witness ==
    /\ ~bIsInitialized
    /\ ulDirCount > 0
    /\ \E pcPath \in Paths :
           FT_rmDir_result(S, pcPath).iStatus = INITIALIZATION_ERROR

\* C18: FT_init returns SUCCESS exactly when the tree is uninitialized and
\* FT_destroy returns SUCCESS exactly when it is initialized, so that the
\* flag changes in no other call and successful FT_init and FT_destroy
\* alternate; a rejected call changes nothing; right after a successful
\* FT_init the root is NULL and the counter 0.
C18_Lifecycle ==
    [][/\ FT_init =>
              IF bIsInitialized THEN UNCHANGED vars
              ELSE bIsInitialized' /\ oNRoot' = NULL /\ ulDirCount' = 0
       /\ (\E bNDEBUG \in BOOLEAN : FT_destroy(bNDEBUG, FALSE)) =>
              IF bIsInitialized THEN ~bIsInitialized' /\ ~bAborted'
              ELSE UNCHANGED vars
       /\ bIsInitialized' # bIsInitialized =>
              \/ FT_init
              \/ \E bNDEBUG \in BOOLEAN : FT_destroy(bNDEBUG, FALSE)]_vars

\* C19: after every successful FT_destroy, from any reachable state, the
\* tree is uninitialized, the root is NULL and the counter is 0: the
\* assertion ulDirCount == 0 of FT_destroy holds on every execution.
C19_DestroyLeavesCountZero ==
    bIsInitialized =>
        LET r == FT_destroy_result(S)
        IN  /\ r.iStatus = SUCCESS
            /\ r.bAssert
            /\ ~r.s.bIsInitialized
            /\ r.s.oNRoot = NULL
            /\ r.s.ulDirCount = 0

\* C20: if an allocation fails at any step of FT_insertDir or FT_insertFile
\* (an intermediate directory, the file node, the linking of a child), the
\* call returns MEMORY_ERROR and the directories, the files, every child
\* array, the root reference and the counter are as before the call.
C20_AtomicInsert ==
    \A pcPath \in Paths :
        LET rDir0 == FT_insertDir_result(S, pcPath, 0)
            rFile0 == FT_insertFile_result(S, pcPath, NULL, 0, 0)
        IN  /\ \A ulFailAt \in AllFailLevels(pcPath) :
                   LET rDir == FT_insertDir_result(S, pcPath, ulFailAt)
                   IN  /\ rDir.iStatus = MEMORY_ERROR => rDir.s = S
                       /\ (/\ rDir0.iStatus = SUCCESS
                           /\ ulFailAt # 0
                           /\ ulFailAt \in FailLevels(pcPath, Len(pcPath)))
                          => rDir.iStatus = MEMORY_ERROR
            /\ \A ulFailAt \in AllFailLevels(pcPath) : \A b \in Buffers :
                   LET rFile == FT_insertFile_result(S, pcPath, b[1], b[2],
                                                     ulFailAt)
                   IN  /\ rFile.iStatus = MEMORY_ERROR => rFile.s = S
                       /\ (/\ rFile0.iStatus = SUCCESS
                           /\ ulFailAt # 0
                           /\ ulFailAt \in FailLevels(pcPath, Len(pcPath) + 1))
                          => rFile.iStatus = MEMORY_ERROR

\* C20's case: below a root that has a child already, an insertion of a path
\* two levels deeper fails after it built the directory in between: in
\* FT_insertDir at the last directory, in FT_insertFile at the linking of
\* the file
C20_Witness ==
    /\ oNRoot \in LiveDirs
    /\ Len(dirs[oNRoot].oDDirChildren) + Len(dirs[oNRoot].oDFileChildren) >= 1
    /\ \E pcPath \in Paths :
           /\ Path_getDepth(pcPath) = 3
           /\ FT_traversePath(S, pcPath) =
                  [iStatus |-> SUCCESS, oNFurthest |-> oNRoot]
           /\ FT_insertDir_result(S, pcPath, 3).iStatus = MEMORY_ERROR
           /\ FT_insertFile_result(S, pcPath, NULL, 0, 4).iStatus =
                  MEMORY_ERROR

\* C21: a second FT_insertDir(p) right after a successful FT_insertDir(p)
\* returns ALREADY_IN_TREE; every FT_insertDir, FT_insertFile, FT_rmDir or
\* FT_rmFile that returns another status than SUCCESS leaves the nodes of the
\* tree, the root and the counter as they were.
C21_IdempotentFailure ==
    \A pcPath \in PathStrings :
        /\ \A ulFailAt \in AllFailLevels(pcPath) :
               LET rDir == FT_insertDir_result(S, pcPath, ulFailAt)
               IN  /\ rDir.iStatus # SUCCESS => rDir.s = S
                   /\ rDir.iStatus = SUCCESS =>
                          \A ulFailAgain \in AllFailLevels(pcPath) :
                              FT_insertDir_result(rDir.s, pcPath, ulFailAgain)
                                  = [iStatus |-> ALREADY_IN_TREE, s |-> rDir.s]
        /\ \A ulFailAt \in AllFailLevels(pcPath) : \A b \in Buffers :
               LET rFile == FT_insertFile_result(S, pcPath, b[1], b[2],
                                                 ulFailAt)
               IN  rFile.iStatus # SUCCESS => rFile.s = S
        /\ LET rDir == FT_rmDir_result(S, pcPath)
           IN  rDir.iStatus # SUCCESS => rDir.s = S
        /\ LET rFile == FT_rmFile_result(S, pcPath)
           IN  rFile.iStatus # SUCCESS => rFile.s = S

\* C21's case: in a tree with a directory and a file below the root, an
\* insertion of a new directory two levels deep succeeds and its repetition
\* is refused
C21_Witness ==
    /\ oNRoot \in LiveDirs
    /\ Len(dirs[oNRoot].oDDirChildren) >= 1
    /\ DOMAIN files # {}
    /\ \E pcPath \in Paths :
           LET rDir == FT_insertDir_result(S, pcPath, 0)
           IN  /\ Path_getDepth(pcPath) >= 2
               /\ rDir.iStatus = SUCCESS
               /\ FT_insertDir_result(rDir.s, pcPath, 0).iStatus =
                      ALREADY_IN_TREE

\* C22: in every reachable initialized state and for every well-formed path
\* p, FT_containsDir(p) is TRUE exactly when the tree holds a directory with
\* path p and FT_containsFile(p) is TRUE exactly when it holds a file with
\* path p; they are never both TRUE for one p.
C22_ContainsIffHolds ==
    bIsInitialized =>
        \A pcPath \in Paths :
            /\ FT_containsDir_result(S, pcPath) <=>
                   (DirsAt(pcPath) \ freed # {})
            /\ FT_containsFile_result(S, pcPath) <=> (FilesAt(pcPath) # {})
            /\ ~(/\ FT_containsDir_result(S, pcPath)
                 /\ FT_containsFile_result(S, pcPath))

\* what C23 says of an insertion of pcPath that took the tree from S to
\* sNew: ulDirs is the number of levels of pcPath that have to be
\* directories, ulExtra what is added to the counter beyond those created
InsertionBuilt(sNew, pcPath, ulDirs, ulExtra) ==
    LET new == DOMAIN sNew.dirs \ DOMAIN dirs
    IN  /\ \A oPPrefix \in Prefixes(pcPath, ulDirs) :
               /\ FT_containsDir_result(sNew, oPPrefix)
               /\ DirsAt(oPPrefix) = {} =>
                      \E n \in new : sNew.dirs[n].oPPath = oPPrefix
        /\ \A n \in new : sNew.dirs[n].oPPath \in Prefixes(pcPath, ulDirs)
        /\ \A n \in DOMAIN dirs : n \in DOMAIN sNew.dirs
        /\ sNew.oNRoot = IF oNRoot # NULL THEN oNRoot
                         ELSE CHOOSE n \in new :
                                  sNew.dirs[n].oPPath = SubSeq(pcPath, 1, 1)
        /\ sNew.ulDirCount = ulDirCount + Cardinality(new) + ulExtra

C24_RmDirRemovesSubtree ==
    \A pcPath \in Paths :
        LET r == FT_rmDir_result(S, pcPath)
            goneDirs == {d \in LiveDirs : IsPrefix(pcPath, dirs[d].oPPath)}
            goneFiles ==
                {f \in DOMAIN files : IsPrefix(pcPath, files[f].oPPath)}
        IN  r.iStatus = SUCCESS =>
                /\ \A oPPath \in Paths :
                       IsPrefix(pcPath, oPPath) =>
                           /\ ~FT_containsDir_result(r.s, oPPath)
                           /\ ~FT_containsFile_result(r.s, oPPath)
                /\ DOMAIN r.s.files = DOMAIN files \ goneFiles
                /\ \A f \in DOMAIN r.s.files : r.s.files[f] = files[f]
                /\ DOMAIN r.s.dirs \ r.s.freed = LiveDirs \ goneDirs
                /\ \A d \in LiveDirs \ goneDirs :
                       r.s.dirs[d] =
                           [dirs[d] EXCEPT
                               !.oDDirChildren = Without(@, goneDirs)]
                /\ r.s.ulDirCount = ulDirCount - Cardinality(goneDirs)

\* C25: a successful FT_rmFile(p) removes exactly the file p, taking it out
\* of the file-children array of its parent; every directory, every other
\* file with its contents and length, the root and the counter are unchanged.
C25_RmFileRemovesOneFile ==
    \A pcPath \in Paths :
        LET r == FT_rmFile_result(S, pcPath)
        IN  r.iStatus = SUCCESS =>
                \E f \in FilesAt(pcPath) :
                    /\ DOMAIN r.s.files = DOMAIN files \ {f}
                    /\ \A g \in DOMAIN r.s.files : r.s.files[g] = files[g]
                    /\ DOMAIN r.s.dirs = DOMAIN dirs
                    /\ \A d \in DOMAIN dirs :
                           r.s.dirs[d] =
                               [dirs[d] EXCEPT
                                   !.oDFileChildren = Without(@, {f})]
                    /\ r.s.oNRoot = oNRoot
                    /\ r.s.ulDirCount = ulDirCount
                    /\ r.s.freed = freed
                    /\ r.s.bIsInitialized = bIsInitialized

\* a file with a sibling file is removed
C25_Witness ==
    \E pcPath \in Paths :
        /\ FT_rmFile_result(S, pcPath).iStatus = SUCCESS
        /\ \E f \in FilesAt(pcPath) :
               \E d \in LiveDirs :
                   /\ Len(dirs[d].oDFileChildren) = 2
                   /\ dirs[d].oDFileChildren[2] = f

\* C26: FT_toString on an initialized tree lists every directory and every
\* file exactly once; the directories come in depth-first pre-order with
\* siblings ascending, and the line of a directory is followed at once by
\* the lines of its own file children, ascending, before any line of a
\* sub-directory.  Before(p, q) says that the line of p has to come before
\* the line of q under that order.
C26_ToStringListing ==
    LET r == FT_toString_result(S, FALSE)
        L == r.pcResult
        IsFileAt(oPPath, k) == Len(oPPath) = k /\ FilesAt(oPPath) # {}
        Before(p, q) ==
            \/ IsProperPrefix(p, q)
            \/ LET k == Path_getSharedPrefixDepth(p, q) + 1
               IN  /\ k <= Len(p)
                   /\ k <= Len(q)
                   /\ IF IsFileAt(p, k) # IsFileAt(q, k)
                      THEN IsFileAt(p, k)
                      ELSE p[k] < q[k]
    IN  bIsInitialized =>
            /\ ~r.bNull
            /\ \A oPPath \in Paths :
                   Cardinality({i \in 1..Len(L) : L[i] = oPPath})
                       = Cardinality(DirsAt(oPPath) \ freed)
                             + Cardinality(FilesAt(oPPath))
            /\ \A i, j \in 1..Len(L) : i < j => Before(L[i], L[j])

(***************************************************************************)
(* What the claims about the checker speak of.                             *)
(***************************************************************************)
RECURSIVE DT_reachable(_, _)
\* the nodes of h that are reached from oNNode through the child arrays
DT_reachable(h, oNNode) ==
    IF oNNode = NULL THEN {}
    ELSE {oNNode} \cup
         UNION {DT_reachable(h, h[oNNode].oDChildren[i]) :
                    i \in 1..Len(h[oNNode].oDChildren)}

\* C27: CheckerDT_isValid returns FALSE without visiting any node when the
\* tree is flagged uninitialized and the count is not 0 or the root is not
\* NULL, and when exactly one of "the root is NULL" and "the count is 0"
\* holds.
C27_StaticsChecked ==
    \A bInit \in BOOLEAN, oNRootArg \in DTRoots, ulCount \in DTCounts :
        LET r == CheckerDT_isValid_result(dtNodes, bInit, oNRootArg, ulCount)
        IN  (\/ ~bInit /\ (ulCount # 0 \/ oNRootArg # NULL)
             \/ (oNRootArg = NULL) # (ulCount = 0)) =>
                ~r.bValid /\ r.visited = << >>

\* a structure of three valid nodes, which the checker accepts with its
\* count and walks when the statics agree
C27_Witness ==
    /\ Len(dtNodes) = 3
    /\ CheckerDT_isValid_result(dtNodes, TRUE, 1, 3).bValid
    /\ Len(CheckerDT_isValid_result(dtNodes, TRUE, 1, 3).visited) = 3

\* C28: for every structure, CheckerDT_isValid returns FALSE when some
\* reachable node has a parent whose path is not exactly the path of the
\* node without its last component, be it no prefix of the node's path or a
\* prefix of the wrong depth.
C28_ParentPathChecked ==
    \A bInit \in BOOLEAN, oNRootArg \in DTRoots, ulCount \in DTCounts :
        (\E n \in DT_reachable(dtNodes, oNRootArg) :
            /\ dtNodes[n].oNParent # NULL
            /\ dtNodes[dtNodes[n].oNParent].oPPath
                   # SubSeq(dtNodes[n].oPPath, 1, Len(dtNodes[n].oPPath) - 1))
        => ~CheckerDT_isValid_result(dtNodes, bInit, oNRootArg, ulCount).bValid

\* C29: for every structure, if CheckerDT_isValid returns TRUE then no two
\* nodes reachable from the root, wherever they are in the tree, have the
\* same absolute path.
C29_GlobalUniqueness ==
    \A bInit \in BOOLEAN, oNRootArg \in DTRoots, ulCount \in DTCounts :
        CheckerDT_isValid_result(dtNodes, bInit, oNRootArg, ulCount).bValid =>
            \A n, m \in DT_reachable(dtNodes, oNRootArg) :
                n # m => dtNodes[n].oPPath # dtNodes[m].oPPath

\* C30: CheckerDT_isValid returns FALSE when some reachable node has two
\* children at indices i < j whose paths are equal or not strictly
\* ascending, or a child whose path is the node's own path.
C30_ChildrenChecked ==
    \A bInit \in BOOLEAN, oNRootArg \in DTRoots, ulCount \in DTCounts :
        (\E n \in DT_reachable(dtNodes, oNRootArg) :
            LET arr == dtNodes[n].oDChildren
            IN  \/ \E i, j \in 1..Len(arr) :
                       /\ i < j
                       /\ Path_comparePath(dtNodes[arr[i]].oPPath,
                                           dtNodes[arr[j]].oPPath) >= 0
                \/ \E i \in 1..Len(arr) :
                       dtNodes[arr[i]].oPPath = dtNodes[n].oPPath)
        => ~CheckerDT_isValid_result(dtNodes, bInit, oNRootArg, ulCount).bValid

\* the only fault of the structure is that the two children of the root
\* are in descending order
C30_Witness ==
    /\ Len(dtNodes) = 3
    /\ dtNodes[1].oDChildren = <<2, 3>>
    /\ Path_comparePath(dtNodes[2].oPPath, dtNodes[3].oPPath) > 0
    /\ CheckerDT_isValid_statics(TRUE, 1, 3)
    /\ \A n \in 1..3 : CheckerDT_Node_parentValid(dtNodes, n)
    /\ \A n \in 2..3 :
           /\ dtNodes[n].oNParent = 1
           /\ IsProperPrefix(dtNodes[1].oPPath, dtNodes[n].oPPath)
    /\ ~CheckerDT_isValid_result(dtNodes, TRUE, 1, 3).bValid

RECURSIVE DT_preOrder(_, _)
RECURSIVE DT_preOrder_from(_, _, _)
\* the subtrees of the children of oNNode from the i-th on, in pre-order
DT_preOrder_from(h, oNNode, i) ==
    IF i > Len(h[oNNode].oDChildren) THEN << >>
    ELSE DT_preOrder(h, h[oNNode].oDChildren[i])
             \o DT_preOrder_from(h, oNNode, i + 1)

\* the nodes reached from oNNode, in pre-order
DT_preOrder(h, oNNode) ==
    IF oNNode = NULL THEN << >>
    ELSE <<oNNode>> \o DT_preOrder_from(h, oNNode, 1)

\* the invariants of a directory tree, for the nodes reached from
\* oNRootArg: a child has the node that lists it as its parent and that
\* node's path as its path less the last component, and the children of a
\* node are strictly ascending
DT_invariants(h, oNRootArg) ==
    /\ oNRootArg # NULL => h[oNRootArg].oNParent = NULL
    /\ \A n \in DT_reachable(h, oNRootArg) :
           /\ \A i \in 1..Len(h[n].oDChildren) :
                  LET c == h[n].oDChildren[i]
                  IN  /\ h[c].oNParent = n
                      /\ h[n].oPPath
                             = SubSeq(h[c].oPPath, 1, Len(h[c].oPPath) - 1)
           /\ StrictlyAscending([i \in 1..Len(h[n].oDChildren) |->
                                     h[h[n].oDChildren[i]].oPPath])

\* C31: for every tree that satisfies the invariants (flag, root and count
\* consistent, every child one level below its parent with the parent's
\* path as prefix, children strictly ascending), CheckerDT_isValid returns
\* TRUE after it has visited every node reachable from the root in
\* pre-order.
C31_NoFalseAlarms ==
    \A bInit \in BOOLEAN, oNRootArg \in DTRoots, ulCount \in DTCounts :
        LET r == CheckerDT_isValid_result(dtNodes, bInit, oNRootArg, ulCount)
        IN  (/\ ~bInit => (ulCount = 0 /\ oNRootArg = NULL)
             /\ (oNRootArg = NULL) = (ulCount = 0)
             /\ DT_invariants(dtNodes, oNRootArg)) =>
                r.bValid /\ r.visited = DT_preOrder(dtNodes, oNRootArg)

\* a root with two children and the invariants holding
C31_Witness ==
    /\ Len(dtNodes) = 3
    /\ dtNodes[1].oDChildren = <<2, 3>>
    /\ DT_invariants(dtNodes, 1)
    /\ CheckerDT_isValid_result(dtNodes, TRUE, 1, 3).visited = <<1, 2, 3>>

\* C40: CheckerDT_isValid returns FALSE whenever ulCount differs from the
\* number of nodes reachable from the root, not only when one of the two is
\* zero and the other is not.
C40_CountChecked ==
    \A bInit \in BOOLEAN, oNRootArg \in DTRoots, ulCount \in DTCounts :
        ulCount # Cardinality(DT_reachable(dtNodes, oNRootArg)) =>
            ~CheckerDT_isValid_result(dtNodes, bInit, oNRootArg,
                                      ulCount).bValid

\* C32: FT_traversePath(p) returns SUCCESS with NULL when the root is NULL,
\* CONFLICTING_PATH with NULL when the depth-1 prefix of p differs from the
\* root's path, and otherwise SUCCESS with the deepest existing directory
\* whose path is a prefix of p or p itself; the node returned is a
\* directory and has no file above it.
C32_TraversePath ==
    \A oPPath \in Paths :
        LET r == FT_traversePath(S, oPPath)
        IN  IF oNRoot = NULL
            THEN r.iStatus = SUCCESS /\ r.oNFurthest = NULL
            ELSE IF dirs[oNRoot].oPPath # SubSeq(oPPath, 1, 1)
            THEN r.iStatus = CONFLICTING_PATH /\ r.oNFurthest = NULL
            ELSE /\ r.iStatus = SUCCESS
                 /\ r.oNFurthest \in LiveDirs
                 /\ IsPrefix(dirs[r.oNFurthest].oPPath, oPPath)
                 /\ \A d \in LiveDirs :
                        IsPrefix(dirs[d].oPPath, oPPath) =>
                            Len(dirs[d].oPPath)
                                <= Len(dirs[r.oNFurthest].oPPath)
                 /\ \A f \in DOMAIN files :
                        ~IsPrefix(files[f].oPPath, dirs[r.oNFurthest].oPPath)

\* what a has-child search of the ascending array keys for oPPath has to
\* return: found with the index of oPPath, or not found with an index at
\* which oPPath keeps the array strictly ascending
HasChildAnswer(r, keys, oPPath) ==
    IF \E i \in 1..Len(keys) : keys[i] = oPPath
    THEN r.bFound /\ keys[r.ulIndex + 1] = oPPath
    ELSE /\ ~r.bFound
         /\ r.ulIndex \in 0..Len(keys)
         /\ StrictlyAscending(DynArray_addAt(keys, r.ulIndex, oPPath))

\* the child arrays of the directories of the current state are, in state
\* sNew, what they were, but for a new node linked in at the index that the
\* has-child search of the current state gives for its path
LinkedAtIndex(sNew) ==
    \A d \in LiveDirs :
        /\ LET old == dirs[d].oDDirChildren
               new == sNew.dirs[d].oDDirChildren
           IN  new # old =>
                   \E n \in DOMAIN sNew.dirs \ DOMAIN dirs :
                       new = DynArray_addAt(old,
                                 NodeD_hasDirChild(S, d,
                                     sNew.dirs[n].oPPath).ulIndex, n)
        /\ LET old == dirs[d].oDFileChildren
               new == sNew.dirs[d].oDFileChildren
           IN  new # old =>
                   \E n \in DOMAIN sNew.files \ DOMAIN files :
                       new = DynArray_addAt(old,
                                 NodeD_hasFileChild(S, d,
                                     sNew.files[n].oPPath).ulIndex, n)

\* C33: for a directory whose child arrays are strictly ascending,
\* NodeD_hasDirChild and NodeD_hasFileChild return TRUE with the index of
\* the child with path p when there is one, and otherwise FALSE with the
\* index at which inserting p keeps the array strictly ascending; NodeD_new
\* and FT_insertFile insert at exactly that index.
C33_HasChildIndex ==
    /\ \A d \in LiveDirs, oPPath \in Paths :
           /\ StrictlyAscending(DirChildPaths(S, d)) =>
                  HasChildAnswer(NodeD_hasDirChild(S, d, oPPath),
                                 DirChildPaths(S, d), oPPath)
           /\ StrictlyAscending(FileChildPaths(S, d)) =>
                  HasChildAnswer(NodeD_hasFileChild(S, d, oPPath),
                                 FileChildPaths(S, d), oPPath)
    /\ \A pcPath \in Paths :
           /\ LET rDir == FT_insertDir_result(S, pcPath, 0)
              IN  rDir.iStatus = SUCCESS => LinkedAtIndex(rDir.s)
           /\ \A b \in Buffers :
                  LET rFile == FT_insertFile_result(S, pcPath, b[1], b[2], 0)
                  IN  rFile.iStatus = SUCCESS => LinkedAtIndex(rFile.s)

\* a directory is inserted in front of the one directory child of its
\* parent, and a file in front of the one file child of its parent
C33_Witness ==
    /\ \E d \in LiveDirs, oPDir \in Paths :
           LET rDir == FT_insertDir_result(S, oPDir, 0)
           IN  /\ Len(dirs[d].oDDirChildren) = 1
               /\ rDir.iStatus = SUCCESS
               /\ Len(rDir.s.dirs[d].oDDirChildren) = 2
               /\ rDir.s.dirs[d].oDDirChildren[2] = dirs[d].oDDirChildren[1]
    /\ \E d \in LiveDirs, oPFile \in Paths :
           LET rFile == FT_insertFile_result(S, oPFile, NULL, 0, 0)
           IN  /\ Len(dirs[d].oDFileChildren) = 1
               /\ rFile.iStatus = SUCCESS
               /\ Len(rFile.s.dirs[d].oDFileChildren) = 2
               /\ rFile.s.dirs[d].oDFileChildren[2]
                      = dirs[d].oDFileChildren[1]

\* C34: in every state between two operations, oNRoot is NULL or refers to
\* a directory node that has not been freed.
C34_RootNeverDangling == oNRoot = NULL \/ oNRoot \in LiveDirs

\* C35: FT_rmDir never reads a directory node after NodeD_free has released
\* it, the read of its assertion on the number of directory children
\* included.
C35_RmDirReadsLiveNodes ==
    \A pcPath \in PathStrings, bNDEBUG \in BOOLEAN :
        LET a == FT_rmDir_accesses(S, pcPath, bNDEBUG)
        IN  a.readAfter \cap a.released = {}

\* C36: in every initialized state the counter is the number of directory
\* nodes in the tree plus the number of FT_insertFile calls that have
\* returned SUCCESS since the last FT_init, so that it is never smaller
\* than the number of live directories.  Stated step by step: FT_init
\* starts with no directory and a counter of 0, and every later step
\* changes the excess of the counter over the live directories by 1 when it
\* is a successful FT_insertFile (the only step that creates a file node)
\* and by 0 otherwise.
C36_CounterAccounting ==
    /\ [](bIsInitialized => ulDirCount >= Cardinality(LiveDirs))
    /\ [][/\ (~bIsInitialized /\ bIsInitialized') =>
                 (ulDirCount' = 0 /\ DOMAIN dirs' \ freed' = {})
          /\ (bIsInitialized /\ bIsInitialized') =>
                 ulDirCount' - Cardinality(DOMAIN dirs' \ freed')
                     = ulDirCount - Cardinality(LiveDirs)
                         + (IF DOMAIN files' \ DOMAIN files # {}
                            THEN 1 ELSE 0)]_vars

\* C37: when the parent directory of p exists, FT_insertDir(p) followed by
\* FT_rmDir(p), and FT_insertFile(p, ...) followed by FT_rmFile(p), each
\* bring back the state that held before the insertion: the same
\* directories and files, the same root and the same counter.
C37_InsertRemoveRoundTrip ==
    \A pcPath \in Paths :
        (/\ Len(pcPath) >= 2
         /\ DirsAt(SubSeq(pcPath, 1, Len(pcPath) - 1)) \ freed # {}) =>
            /\ LET rIns == FT_insertDir_result(S, pcPath, 0)
                   rRm == FT_rmDir_result(rIns.s, pcPath)
               IN  rIns.iStatus = SUCCESS =>
                       rRm.iStatus = SUCCESS /\ rRm.s = S
            /\ \A b \in Buffers :
                   LET rIns == FT_insertFile_result(S, pcPath, b[1], b[2], 0)
                       rRm == FT_rmFile_result(rIns.s, pcPath)
                   IN  rIns.iStatus = SUCCESS =>
                           rRm.iStatus = SUCCESS /\ rRm.s = S

\* C38: in every initialized state the pre-order traversal of FT_toString
\* writes only below the length ulDirCount of the array it allocated (it
\* visits no more than ulDirCount directories), and every node it visits is
\* live.
C38_ToStringWithinArray ==
    LET visited == FT_preOrderTraversal(S, oNRoot)
    IN  bIsInitialized =>
            /\ Len(visited) <= ulDirCount
            /\ \A i \in 1..Len(visited) : visited[i] \in LiveDirs

\* C39: FT_containsDir, FT_containsFile, FT_getFileContents, FT_stat and
\* FT_toString leave the flag, the root, the counter, every node with its
\* child arrays and every file's contents and length unchanged, in every
\* state and for every argument.
C39_QueriesChangeNothing ==
    [][(\/ \E pcPath \in PathStrings, bCrash \in BOOLEAN :
              \/ FT_containsDir(pcPath, bCrash)
              \/ FT_containsFile(pcPath, bCrash)
              \/ FT_getFileContents(pcPath, bCrash)
              \/ FT_stat(pcPath, bCrash)
        \/ \E bFail \in BOOLEAN, bCrash \in BOOLEAN :
              FT_toString(bFail, bCrash))
       => UNCHANGED <<bIsInitialized, oNRoot, ulDirCount, dirs, files>>]_vars

\* the queries have a tree to ask about: a directory below the root and a
\* file with contents
C39_Witness ==
    /\ bIsInitialized
    /\ \E pcPath \in Paths :
           Len(pcPath) = 2 /\ FT_containsDir_result(S, pcPath)
    /\ \E pcPath \in Paths : FT_containsFile_result(S, pcPath)
    /\ \E f \in DOMAIN files : files[f].pvContents # NULL
    /\ Len(FT_toString_result(S, FALSE).pcResult) >= 3

====
